---- MODULE Spec2Model ----
(***************************************************************************)
(* Model of utils/common_utils.py: read_file and load_json_file, the two   *)
(* encoding-fallback loaders.  A file is a sequence of bytes (0..255), a   *)
(* text is a sequence of Unicode code points.  The codecs, the text-mode   *)
(* newline translation, str.strip and json.loads are computed, not         *)
(* assumed.                                                                *)
(***************************************************************************)
EXTENDS Integers, Sequences, FiniteSets, TLC

\* ---------------------------------------------------------------- bounds
\* Longest file body explored, in bytes.
MaxLen == 3

\* The bytes file contents are drawn from:
\*   0x0D CR (whitespace for str.strip and for JSON, and a line ending),
\*   0x22 quote, 0x31 digit one,
\*   0x81 (UTF-8 continuation byte, undefined in cp1252),
\*   0x93 (UTF-8 continuation byte, a curly quote in cp1252),
\*   0xBB, 0xBF, 0xEF (the three bytes of the UTF-8 byte-order-mark, 0xEF
\*   also being the lead byte of a 3-byte sequence).
Alphabet == {13, 34, 49, 129, 147, 187, 191, 239}

RECURSIVE SeqsUpTo(_)
SeqsUpTo(n) ==
    IF n = 0 THEN {<<>>}
    ELSE LET shorter == SeqsUpTo(n - 1)
         IN  shorter \cup {Append(s, b) : s \in {t \in shorter : Len(t) = n - 1},
                                           b \in Alphabet}

BOM == <<239, 187, 191>>

\* File contents: every body of at most MaxLen bytes, alone and behind a
\* byte-order-mark.
Contents == SeqsUpTo(MaxLen) \cup {BOM \o body : body \in SeqsUpTo(MaxLen)}

Paths == {"cfg.json", "data.json"}

\* ---------------------------------------------------------------- codecs
BOMChar == 65279
ReplacementChar == 65533

\* Number of bytes of the UTF-8 sequence a lead byte announces; 0 when the
\* byte cannot start a sequence (a continuation byte, 0xC0, 0xC1, 0xF5..0xFF).
Utf8SeqLen(b) ==
    IF b < 128 THEN 1
    ELSE IF b >= 194 /\ b <= 223 THEN 2
    ELSE IF b >= 224 /\ b <= 239 THEN 3
    ELSE IF b >= 240 /\ b <= 244 THEN 4
    ELSE 0

\* Range allowed for the byte that follows lead byte b (overlong forms,
\* surrogates and code points above 0x10FFFF are rejected here).
Utf8SecondLo(b) == IF b = 224 THEN 160 ELSE IF b = 240 THEN 144 ELSE 128
Utf8SecondHi(b) == IF b = 237 THEN 159 ELSE IF b = 244 THEN 143 ELSE 191

\* Is byte k (k >= 1) after the lead byte at position i a valid continuation?
Utf8ContOK(d, i, k) ==
    /\ i + k <= Len(d)
    /\ IF k = 1
       THEN d[i + 1] >= Utf8SecondLo(d[i]) /\ d[i + 1] <= Utf8SecondHi(d[i])
       ELSE d[i + k] >= 128 /\ d[i + k] <= 191

\* One step of the decoder at position i: ok with the code point and the
\* sequence length, or not ok with the length of the maximal invalid part.
Utf8Scan(d, i) ==
    LET b == d[i]
        n == Utf8SeqLen(b)
        good == IF n = 0 THEN 0
                ELSE IF n >= 2 /\ ~Utf8ContOK(d, i, 1) THEN 1
                ELSE IF n >= 3 /\ ~Utf8ContOK(d, i, 2) THEN 2
                ELSE IF n >= 4 /\ ~Utf8ContOK(d, i, 3) THEN 3
                ELSE n
    IN  IF n # 0 /\ good = n
        THEN [ok |-> TRUE, len |-> n,
              cp |-> IF n = 1 THEN b
                     ELSE IF n = 2 THEN (b - 192) * 64 + (d[i + 1] - 128)
                     ELSE IF n = 3 THEN (b - 224) * 4096 + (d[i + 1] - 128) * 64
                                        + (d[i + 2] - 128)
                     ELSE (b - 240) * 262144 + (d[i + 1] - 128) * 4096
                          + (d[i + 2] - 128) * 64 + (d[i + 3] - 128)]
        ELSE [ok |-> FALSE, len |-> IF good = 0 THEN 1 ELSE good, cp |-> ReplacementChar]

\* UTF-8 decoding from position i.  errors = "strict" fails on the first
\* invalid sequence; errors = "replace" substitutes U+FFFD for it.
RECURSIVE utf_8_decode(_, _, _)
utf_8_decode(d, i, errors) ==
    IF i > Len(d) THEN [ok |-> TRUE, text |-> <<>>]
    ELSE LET s == Utf8Scan(d, i)
         IN  IF ~s.ok /\ errors = "strict"
             THEN [ok |-> FALSE, text |-> <<>>]
             ELSE LET rest == utf_8_decode(d, i + s.len, errors)
                  IN  [ok |-> rest.ok,
                       text |-> IF rest.ok THEN <<s.cp>> \o rest.text ELSE <<>>]

\* utf-8-sig: a leading byte-order-mark is skipped, the rest is UTF-8.
utf_8_sig_decode(d, errors) ==
    IF Len(d) >= 3 /\ SubSeq(d, 1, 3) = BOM
    THEN utf_8_decode(d, 4, errors)
    ELSE utf_8_decode(d, 1, errors)

\* cp1252: bytes 0x80..0x9F map through the Windows-1252 table; five of
\* them are undefined (0 below) and make the decode fail.
Cp1252High ==
    <<8364, 0, 8218, 402, 8222, 8230, 8224, 8225, 710, 8240, 352, 8249, 338, 0, 381, 0,
      0, 8216, 8217, 8220, 8221, 8226, 8211, 8212, 732, 8482, 353, 8250, 339, 0, 382, 376>>

Cp1252Char(b) == IF b >= 128 /\ b <= 159 THEN Cp1252High[b - 127] ELSE b

cp1252_decode(d) ==
    IF \E i \in 1..Len(d) : Cp1252Char(d[i]) = 0
    THEN [ok |-> FALSE, text |-> <<>>]
    ELSE [ok |-> TRUE, text |-> [i \in 1..Len(d) |-> Cp1252Char(d[i])]]

\* latin-1 maps every byte to the code point of the same number.
latin_1_decode(d) == [ok |-> TRUE, text |-> d]

\* bytes.decode(enc, errors): ok = FALSE stands for UnicodeDecodeError.
decode(d, enc, errors) ==
    IF enc = "utf-8" THEN utf_8_decode(d, 1, errors)
    ELSE IF enc = "utf-8-sig" THEN utf_8_sig_decode(d, errors)
    ELSE IF enc = "cp1252" THEN cp1252_decode(d)
    ELSE latin_1_decode(d)

\* Text-mode reading translates "\r\n" and a lone "\r" to "\n" (open() is
\* called without a newline argument: universal newlines).
RECURSIVE TranslateNewlines(_)
TranslateNewlines(t) ==
    IF t = <<>> THEN <<>>
    ELSE IF t[1] = 13
         THEN IF Len(t) >= 2 /\ t[2] = 10
              THEN <<10>> \o TranslateNewlines(SubSeq(t, 3, Len(t)))
              ELSE <<10>> \o TranslateNewlines(Tail(t))
         ELSE <<t[1]>> \o TranslateNewlines(Tail(t))

\* Text-mode reading decodes incrementally.  The incremental utf-8-sig
\* decoder holds back an input shorter than the byte-order-mark that is a
\* prefix of it ("not enough data to decide") and reports no error when the
\* file ends there: such a file reads as the empty text.  For every other
\* input, and for the other codecs, the result is that of decode.
IncrementalDecode(d, enc, errors) ==
    IF enc = "utf-8-sig" /\ Len(d) < 3 /\ d = SubSeq(BOM, 1, Len(d))
    THEN [ok |-> TRUE, text |-> <<>>]
    ELSE decode(d, enc, errors)

\* f.read() on a handle opened in text mode with the given encoding:
\* ok = FALSE stands for UnicodeDecodeError.
TextRead(d, enc, errors) ==
    LET r == IncrementalDecode(d, enc, errors)
    IN  [ok |-> r.ok, text |-> IF r.ok THEN TranslateNewlines(r.text) ELSE <<>>]

\* str.isspace for one character.  U+FEFF is not whitespace.
IsSpace(c) ==
    \/ c >= 9 /\ c <= 13
    \/ c >= 28 /\ c <= 32
    \/ c \in {133, 160, 5760, 8232, 8233, 8239, 8287, 12288}
    \/ c >= 8192 /\ c <= 8202

RECURSIVE lstrip(_)
lstrip(t) == IF t # <<>> /\ IsSpace(t[1]) THEN lstrip(Tail(t)) ELSE t

RECURSIVE rstrip(_)
rstrip(t) ==
    IF t # <<>> /\ IsSpace(t[Len(t)]) THEN rstrip(SubSeq(t, 1, Len(t) - 1)) ELSE t

\* str.strip()
strip(t) == rstrip(lstrip(t))

\* ------------------------------------------------------------- json.loads
\* json.loads on a text, for the JSON this model exercises: whitespace,
\* integers written with digits, and strings without backslash escapes.
\* Any other first character is "Expecting value", as in the parser for
\* every character that cannot start a value.  Positions are 0-based
\* character offsets, as in JSONDecodeError.pos.
NoValue == [kind |-> "none", num |-> 0, str |-> <<>>]

JSONOk(v, end) == [ok |-> TRUE, value |-> v, end |-> end, msg |-> "", pos |-> 0]
JSONErr(m, p) == [ok |-> FALSE, value |-> NoValue, end |-> 0, msg |-> m, pos |-> p]

IsJSONSpace(c) == c \in {32, 9, 10, 13}
IsDigit(c) == c >= 48 /\ c <= 57

\* First index at or after i that does not hold JSON whitespace.
RECURSIVE SkipWhitespace(_, _)
SkipWhitespace(s, i) ==
    IF i <= Len(s) /\ IsJSONSpace(s[i]) THEN SkipWhitespace(s, i + 1) ELSE i

\* Body of a string whose opening quote is at index begin; j is the scan
\* position, acc the characters collected so far.
RECURSIVE scanstring(_, _, _, _)
scanstring(s, begin, j, acc) ==
    IF j > Len(s) THEN JSONErr("Unterminated string starting at", begin - 1)
    ELSE IF s[j] = 34 THEN JSONOk([kind |-> "str", num |-> 0, str |-> acc], j + 1)
    ELSE IF s[j] < 32 THEN JSONErr("Invalid control character at", j - 1)
    ELSE scanstring(s, begin, j + 1, Append(acc, s[j]))

\* Integer part of a number starting at index j: "0" alone, or a nonzero
\* digit followed by digits.
RECURSIVE scannumber(_, _, _)
scannumber(s, j, acc) ==
    IF j <= Len(s) /\ IsDigit(s[j])
    THEN scannumber(s, j + 1, acc * 10 + (s[j] - 48))
    ELSE JSONOk([kind |-> "int", num |-> acc, str |-> <<>>], j)

scan_once(s, i) ==
    IF i > Len(s) THEN JSONErr("Expecting value", i - 1)
    ELSE IF s[i] = 34 THEN scanstring(s, i, i + 1, <<>>)
    ELSE IF s[i] = 48 THEN JSONOk([kind |-> "int", num |-> 0, str |-> <<>>], i + 1)
    ELSE IF IsDigit(s[i]) THEN scannumber(s, i, 0)
    ELSE JSONErr("Expecting value", i - 1)

\* json.loads(s): ok = FALSE stands for JSONDecodeError(msg, s, pos).
json_loads(s) ==
    IF s # <<>> /\ s[1] = BOMChar
    THEN JSONErr("Unexpected UTF-8 BOM (decode using utf-8-sig)", 0)
    ELSE LET obj == scan_once(s, SkipWhitespace(s, 1))
         IN  IF ~obj.ok THEN obj
             ELSE LET end == SkipWhitespace(s, obj.end)
                  IN  IF end <= Len(s) THEN JSONErr("Extra data", end - 1)
                      ELSE obj

\* ------------------------------------------------------------ the program
VARIABLES
    file_path,   \* the path both functions are given
    file,        \* the bytes stored at file_path
    fn,          \* the function called: "none", "read_file", "load_json_file"
    pc,          \* position in the call
    enc,         \* index of the candidate being tried (one past the list: lossy step)
    handles,     \* number of open handles on the file
    open_calls,  \* number of calls of open() made by the call
    pending,     \* what leaves the with-block: "none", "value" or an exception
    os_error,    \* a file-access error has been raised
    content,     \* the text f.read() gave to _read_text_with_fallback
    data,        \* the bytes f.read() gave to load_json_file
    last_error,  \* load_json_file's last_error
    tried,       \* the attempts made so far, in order
    outcome,     \* "none", "returned" or the exception that left the call
    result,      \* the value returned
    raised       \* the JSONDecodeError raised by load_json_file

vars == <<file_path, file, fn, pc, enc, handles, open_calls, pending, os_error,
          content, data, last_error, tried, outcome, result, raised>>

\* No exception; msg is a string in last_error and in the errors json.loads
\* raises, and the tuple of the parts of the composed message in raised.
NoError == [type |-> "none", msg |-> "", doc |-> <<>>, pos |-> 0]
NotRaised == [type |-> "none", msg |-> <<>>, doc |-> <<>>, pos |-> 0]

\* The exception object bound to e by an except clause.
UnicodeDecodeError == [type |-> "UnicodeDecodeError", msg |-> "", doc |-> <<>>, pos |-> 0]
JSONDecodeError(msg, doc, pos) ==
    [type |-> "JSONDecodeError", msg |-> msg, doc |-> doc, pos |-> pos]

Attempt(e, errs, res) == [enc |-> e, errors |-> errs, res |-> res]

\* Faulty variants of the candidate list of _read_text_with_fallback:
\* latin-1 placed before cp1252, and latin-1 left out.
encodings_read_text_latin1_first == <<"utf-8", "utf-8-sig", "latin-1", "cp1252">>
encodings_read_text_no_latin1 == <<"utf-8", "utf-8-sig", "cp1252">>

\* The candidate list of _read_text_with_fallback.
encodings_read_text == <<"utf-8", "utf-8-sig", "cp1252", "latin-1">>

\* Faulty variant of the candidate list of load_json_file: no utf-8-sig.
encodings_load_json_no_sig == <<"utf-8", "cp1252", "latin-1">>

\* The candidate list of load_json_file.
encodings_load_json == <<"utf-8", "utf-8-sig", "cp1252", "latin-1">>

\* Faulty variants of the except clause of _read_text_with_fallback: one
\* that names the wrong exception, one that catches everything.
read_text_except_encode_error(exc) == exc = "UnicodeEncodeError"
read_text_except_all(exc) == TRUE

\* The except clause of the loop of _read_text_with_fallback: which
\* exceptions it catches.
read_text_except(exc) == exc = "UnicodeDecodeError"

\* Faulty variant of the except clause of the loop of load_json_file:
\* parse failures are not caught.
load_json_except_decode_only(exc) == exc = "UnicodeDecodeError"

\* The except clause of the loop of load_json_file.
load_json_except(exc) == exc \in {"UnicodeDecodeError", "JSONDecodeError"}

\* The except clause of the final attempt of load_json_file.
final_except(exc) == exc = "JSONDecodeError"

\* Error handling of the last-resort open of _read_text_with_fallback.
read_text_final_errors == "replace"

\* Faulty variant of the final decode of load_json_file: no replacement.
load_json_final_errors_strict == "strict"

\* Error handling of the final decode of load_json_file.
load_json_final_errors == "replace"

\* Faulty variant of the end of a with-block: the handle stays open.
with_exit_leak(h) == h

\* Leaving a with-block closes the handle it opened.
with_exit(h) == h - 1

\* Faulty variant of the re-raise: the position is not passed on.
reraise_no_pos(path, e) ==
    JSONDecodeError(<<"Failed to decode/parse JSON from ", path, ": ", e.msg>>, e.doc, 0)

\* The error load_json_file raises from the parse failure e of the final step.
reraise(path, e) ==
    JSONDecodeError(<<"Failed to decode/parse JSON from ", path, ": ", e.msg>>, e.doc, e.pos)

Init ==
    /\ file_path \in Paths
    /\ file \in Contents
    /\ fn = "none"
    /\ pc = "idle"
    /\ enc = 1
    /\ handles = 0
    /\ open_calls = 0
    /\ pending = "none"
    /\ os_error = FALSE
    /\ content = <<>>
    /\ data = <<>>
    /\ last_error = NoError
    /\ tried = <<>>
    /\ outcome = "none"
    /\ result = NoValue
    /\ raised = NotRaised

\* ---- read_file / _read_text_with_fallback
read_file_call ==
    /\ pc = "idle"
    /\ fn' = "read_file"
    /\ pc' = "open"
    /\ UNCHANGED <<file_path, file, enc, handles, open_calls, pending, os_error, content,
                   data, last_error, tried, outcome, result, raised>>

\* open(file_path, "r", encoding=enc, errors=...): for a candidate of the
\* list, or for the last resort once the list is exhausted.  The file may be
\* missing or unreadable at any open.
read_text_open ==
    /\ fn = "read_file" /\ pc = "open"
    /\ open_calls' = open_calls + 1
    /\ \E accessible \in BOOLEAN :
         IF accessible
         THEN /\ handles' = handles + 1
              /\ pc' = "read"
              /\ UNCHANGED <<os_error, outcome>>
         ELSE /\ os_error' = TRUE
              /\ outcome' = "OSError"
              /\ pc' = "done"
              /\ UNCHANGED handles
    /\ UNCHANGED <<file_path, file, fn, enc, pending, content, data, last_error, tried,
                   result, raised>>

\* f.read() inside the with-block.
read_text_read ==
    /\ fn = "read_file" /\ pc = "read"
    /\ LET strict == enc <= Len(encodings_read_text)
           name == IF strict THEN encodings_read_text[enc] ELSE "utf-8"
           errs == IF strict THEN "strict" ELSE read_text_final_errors
           r == TextRead(file, name, errs)
       IN  \E readable \in BOOLEAN :
             IF ~readable
             THEN /\ pending' = "OSError"
                  /\ os_error' = TRUE
                  /\ tried' = Append(tried, Attempt(name, errs, "OSError"))
                  /\ UNCHANGED content
             ELSE IF r.ok
             THEN /\ pending' = "value"
                  /\ content' = r.text
                  /\ tried' = Append(tried, Attempt(name, errs, "ok"))
                  /\ UNCHANGED os_error
             ELSE /\ pending' = "UnicodeDecodeError"
                  /\ tried' = Append(tried, Attempt(name, errs, "UnicodeDecodeError"))
                  /\ UNCHANGED <<content, os_error>>
    /\ pc' = "exit"
    /\ UNCHANGED <<file_path, file, fn, enc, handles, open_calls, data, last_error,
                   outcome, result, raised>>

\* The with-block ends: the handle is closed, then the value is returned,
\* the except clause of the loop continues with the next candidate, or the
\* exception leaves the function.
read_text_exit ==
    /\ fn = "read_file" /\ pc = "exit"
    /\ handles' = with_exit(handles)
    /\ pending' = "none"
    /\ IF pending = "value"
       THEN /\ pc' = "return"
            /\ UNCHANGED <<enc, outcome>>
       ELSE IF enc <= Len(encodings_read_text) /\ read_text_except(pending)
       THEN /\ enc' = enc + 1
            /\ pc' = "open"
            /\ UNCHANGED outcome
       ELSE /\ outcome' = pending
            /\ pc' = "done"
            /\ UNCHANGED enc
    /\ UNCHANGED <<file_path, file, fn, open_calls, os_error, content, data, last_error,
                   tried, result, raised>>

\* read_file: return content.strip()
read_file_return ==
    /\ fn = "read_file" /\ pc = "return"
    /\ result' = [kind |-> "text", num |-> 0, str |-> strip(content)]
    /\ outcome' = "returned"
    /\ pc' = "done"
    /\ UNCHANGED <<file_path, file, fn, enc, handles, open_calls, pending, os_error,
                   content, data, last_error, tried, raised>>

\* ---- load_json_file
load_json_file_call ==
    /\ pc = "idle"
    /\ fn' = "load_json_file"
    /\ pc' = "open"
    /\ UNCHANGED <<file_path, file, enc, handles, open_calls, pending, os_error, content,
                   data, last_error, tried, outcome, result, raised>>

\* open(file_path, "rb")
load_json_open ==
    /\ fn = "load_json_file" /\ pc = "open"
    /\ open_calls' = open_calls + 1
    /\ \E accessible \in BOOLEAN :
         IF accessible
         THEN /\ handles' = handles + 1
              /\ pc' = "read"
              /\ UNCHANGED <<os_error, outcome>>
         ELSE /\ os_error' = TRUE
              /\ outcome' = "OSError"
              /\ pc' = "done"
              /\ UNCHANGED handles
    /\ UNCHANGED <<file_path, file, fn, enc, pending, content, data, last_error, tried,
                   result, raised>>

\* data = f.read()
load_json_read ==
    /\ fn = "load_json_file" /\ pc = "read"
    /\ \E readable \in BOOLEAN :
         IF readable
         THEN /\ data' = file
              /\ pending' = "value"
              /\ UNCHANGED os_error
         ELSE /\ pending' = "OSError"
              /\ os_error' = TRUE
              /\ UNCHANGED data
    /\ pc' = "exit"
    /\ UNCHANGED <<file_path, file, fn, enc, handles, open_calls, content, last_error,
                   tried, outcome, result, raised>>

\* The with-block ends: the handle is closed; no except clause surrounds it.
load_json_exit ==
    /\ fn = "load_json_file" /\ pc = "exit"
    /\ handles' = with_exit(handles)
    /\ pending' = "none"
    /\ IF pending = "value"
       THEN /\ pc' = "try"
            /\ UNCHANGED outcome
       ELSE /\ outcome' = pending
            /\ pc' = "done"
    /\ UNCHANGED <<file_path, file, fn, enc, open_calls, os_error, content, data,
                   last_error, tried, result, raised>>

\* One iteration of the loop: decode data under the candidate, parse the
\* text, return the value; an exception the except clause catches is kept
\* in last_error and the loop continues.
load_json_try ==
    /\ fn = "load_json_file" /\ pc = "try" /\ enc <= Len(encodings_load_json)
    /\ LET name == encodings_load_json[enc]
           d == decode(data, name, "strict")
           j == json_loads(d.text)
           exc == IF ~d.ok THEN "UnicodeDecodeError" ELSE "JSONDecodeError"
           e == IF ~d.ok THEN UnicodeDecodeError ELSE JSONDecodeError(j.msg, d.text, j.pos)
       IN  IF d.ok /\ j.ok
           THEN /\ tried' = Append(tried, Attempt(name, "strict", "ok"))
                /\ result' = j.value
                /\ outcome' = "returned"
                /\ pc' = "done"
                /\ UNCHANGED <<enc, last_error, raised>>
           ELSE IF load_json_except(exc)
           THEN /\ tried' = Append(tried, Attempt(name, "strict", exc))
                /\ last_error' = e
                /\ enc' = enc + 1
                /\ pc' = IF enc = Len(encodings_load_json) THEN "final" ELSE "try"
                /\ UNCHANGED <<result, outcome, raised>>
           ELSE /\ tried' = Append(tried, Attempt(name, "strict", exc))
                /\ outcome' = exc
                /\ pc' = "done"
                /\ UNCHANGED <<enc, last_error, result, raised>>
    /\ UNCHANGED <<file_path, file, fn, handles, open_calls, pending, os_error, content,
                   data>>

\* The final attempt: decode with replacement, parse, return the value or
\* re-raise the parse failure with the path in its message.
load_json_final ==
    /\ fn = "load_json_file" /\ pc = "final"
    /\ LET d == decode(data, "utf-8", load_json_final_errors)
           j == json_loads(d.text)
           exc == IF ~d.ok THEN "UnicodeDecodeError" ELSE "JSONDecodeError"
           e == JSONDecodeError(j.msg, d.text, j.pos)
       IN  IF d.ok /\ j.ok
           THEN /\ tried' = Append(tried, Attempt("utf-8", load_json_final_errors, "ok"))
                /\ result' = j.value
                /\ outcome' = "returned"
                /\ UNCHANGED raised
           ELSE /\ tried' = Append(tried, Attempt("utf-8", load_json_final_errors, exc))
                /\ outcome' = exc
                /\ raised' = IF final_except(exc) THEN reraise(file_path, e)
                             ELSE NotRaised
                /\ UNCHANGED result
    /\ pc' = "done"
    /\ UNCHANGED <<file_path, file, fn, enc, handles, open_calls, pending, os_error,
                   content, data, last_error>>

Next ==
    \/ read_file_call
    \/ read_text_open
    \/ read_text_read
    \/ read_text_exit
    \/ read_file_return
    \/ load_json_file_call
    \/ load_json_open
    \/ load_json_read
    \/ load_json_exit
    \/ load_json_try
    \/ load_json_final

Spec == Init /\ [][Next]_vars

\* ------------------------------------------------------------ properties
\* The order the documentation fixes for the candidates.
CandidateOrder == <<"utf-8", "utf-8-sig", "cp1252", "latin-1">>

Done(f) == fn = f /\ pc = "done"

\* Names and results of the attempts made so far.
TriedEnc == [m \in 1..Len(tried) |-> tried[m].enc]
TriedRes == [m \in 1..Len(tried) |-> tried[m].res]

\* The text read_file returns when candidate k is the first success, with
\* reading done by rd (a whole-buffer decode or a text-mode read).
StrictDecode(c, name) == decode(c, name, "strict")
StrictRead(c, name) == TextRead(c, name, "strict")

FirstSuccess(rd(_, _), c, k) ==
    /\ rd(c, CandidateOrder[k]).ok
    /\ \A m \in 1..(k - 1) : ~rd(c, CandidateOrder[m]).ok

\* The attempts of a call that succeeded at candidate k: the k first
\* candidates in order, every one before the last failed by failure[m].
AttemptsUpTo(k, failure) ==
    /\ Len(tried) = k
    /\ \A m \in 1..k : tried[m].enc = CandidateOrder[m] /\ tried[m].errors = "strict"
    /\ \A m \in 1..(k - 1) : tried[m].res = failure[m]
    /\ tried[k].res = "ok"

AllDecodeErrors == [m \in 1..4 |-> "UnicodeDecodeError"]

ReadFileRank ==
    IF pc = "done" THEN 0
    ELSE (6 - enc) * 3 + (CASE pc = "open" -> 4 [] pc = "read" -> 3 [] pc = "exit" -> 2
                            [] pc = "return" -> 1 [] OTHER -> 0)

\* C2: a read_file call ends (every step brings it nearer to its end and it
\* is never stuck before it), and on a file that can be opened and read it
\* ends by returning a string; a decode error is never its outcome.
C2_AlwaysReturnsString ==
    /\ [](fn = "read_file" =>
            /\ outcome # "UnicodeDecodeError"
            /\ (pc = "done" /\ ~os_error) =>
                   (outcome = "returned" /\ result.kind = "text")
            /\ pc # "done" => ENABLED Next)
    /\ [][fn = "read_file" => (ReadFileRank' < ReadFileRank /\ ReadFileRank' >= 0)]_vars

\* A string returned after a decode error was absorbed.
C2_Witness ==
    /\ Done("read_file") /\ outcome = "returned"
    /\ \E m \in 1..Len(tried) : tried[m].res = "UnicodeDecodeError"

\* How candidate name fares on buffer c in load_json_file.
JSONClass(c, name) ==
    IF ~StrictDecode(c, name).ok THEN "UnicodeDecodeError"
    ELSE IF ~json_loads(StrictDecode(c, name).text).ok THEN "JSONDecodeError"
    ELSE "ok"

JSONFailures(c) == [m \in 1..4 |-> JSONClass(c, CandidateOrder[m])]

\* C3: load_json_file tries utf-8, utf-8-sig, cp1252, latin-1 in that order
\* on the bytes it read, a candidate that fails to decode or to parse is
\* followed by the next one, and the value returned from the loop is the
\* parse of the first candidate that both decodes and parses, nothing being
\* tried after it.
C3_FirstParseWins ==
    fn = "load_json_file" =>
        /\ \A m \in 1..Len(tried) : m <= 4 =>
               /\ tried[m].enc = CandidateOrder[m]
               /\ tried[m].errors = "strict"
               /\ tried[m].res = JSONClass(file, CandidateOrder[m])
        /\ \A m \in 1..(Len(tried) - 1) : tried[m].res # "ok"
        /\ pc \in {"try", "final"} => enc = Len(tried) + 1
        /\ \A k \in 1..4 :
               (pc = "done" /\ ~os_error /\ FirstSuccess(LAMBDA c, n : [ok |-> JSONClass(c, n) = "ok"], file, k))
               => /\ outcome = "returned"
                  /\ AttemptsUpTo(k, JSONFailures(file))
                  /\ result = json_loads(StrictDecode(file, CandidateOrder[k]).text).value

\* A value returned by the third candidate after two decode failures.
C3_Witness ==
    /\ Done("load_json_file") /\ outcome = "returned"
    /\ TriedRes = <<"UnicodeDecodeError", "UnicodeDecodeError", "ok">>
    /\ result.kind = "str"

\* C4: once the bytes are read, load_json_file fails only with a JSON-parse
\* error, and only after the four strict candidates and then the lossy
\* UTF-8 attempt have all failed; the lossy decode never fails and a decode
\* error is never the outcome.
C4_FailsOnlyAfterAllAttempts ==
    fn = "load_json_file" =>
        /\ outcome # "UnicodeDecodeError"
        /\ (pc = "done" /\ ~os_error) => outcome \in {"returned", "JSONDecodeError"}
        /\ \A m \in 1..Len(tried) :
               tried[m].errors = "replace" => tried[m].res # "UnicodeDecodeError"
        /\ outcome = "JSONDecodeError" =>
               /\ TriedEnc = CandidateOrder \o <<"utf-8">>
               /\ \A m \in 1..4 : tried[m].errors = "strict" /\ tried[m].res # "ok"
               /\ tried[5] = Attempt("utf-8", "replace", "JSONDecodeError")
               /\ raised.type = "JSONDecodeError"

\* A failure after decode errors in the loop and a lossy decode of bytes
\* that are not UTF-8.
C4_Witness ==
    /\ Done("load_json_file") /\ outcome = "JSONDecodeError"
    /\ tried[1].res = "UnicodeDecodeError"
    /\ \E i \in 1..Len(raised.doc) : raised.doc[i] = ReplacementChar

\* C5: a file-access error raised by open or read is not caught: it is the
\* outcome of the call, and once it is raised no candidate, lossy step or
\* parse is attempted.  A call ends in exactly one of a returned value, a
\* file-access error and, for load_json_file only, a JSON-parse error.
C5_Outcomes ==
    /\ os_error => pc \in {"exit", "done"}
    /\ pc = "done" =>
          /\ os_error <=> outcome = "OSError"
          /\ outcome \in {"returned", "OSError"}
                 \cup (IF fn = "load_json_file" THEN {"JSONDecodeError"} ELSE {})
          /\ outcome = "returned" <=> result # NoValue
          /\ outcome = "JSONDecodeError" <=> raised # NotRaised

C5_FileAccessErrorPropagates ==
    /\ []C5_Outcomes
    /\ [][os_error => (open_calls' = open_calls /\ tried' = tried /\ pc' = "done"
                       /\ outcome' = "OSError")]_vars

\* A read_file call ended by a file-access error on its second open.
C5_Witness ==
    /\ Done("read_file") /\ outcome = "OSError"
    /\ open_calls = 2
    /\ handles = 0

\* Does c begin with the byte-order-mark, followed by valid UTF-8?
BOMThenUtf8(c) ==
    /\ Len(c) >= 3 /\ SubSeq(c, 1, 3) = BOM
    /\ utf_8_decode(c, 4, "strict").ok

AfterBOM(c) == utf_8_decode(c, 4, "strict").text

\* C6: for a byte-order-mark followed by valid UTF-8 JSON, load_json_file
\* returns the parse of the JSON after the mark; the utf-8 candidate fails
\* and utf-8-sig is the candidate that succeeds.
C6_BOMJson ==
    (Done("load_json_file") /\ ~os_error /\ BOMThenUtf8(file) /\ json_loads(AfterBOM(file)).ok)
    => /\ outcome = "returned"
       /\ result = json_loads(AfterBOM(file)).value
       /\ tried = <<Attempt("utf-8", "strict", "JSONDecodeError"),
                    Attempt("utf-8-sig", "strict", "ok")>>

\* The string of a JSON file that starts with a byte-order-mark.
C6_Witness ==
    /\ Done("load_json_file") /\ outcome = "returned"
    /\ BOMThenUtf8(file)
    /\ tried[1].res = "JSONDecodeError"
    /\ result.kind \in {"int", "str"}

\* C7: for a UTF-8 file that begins with a byte-order-mark, read_file
\* returns the stripped text of what follows the mark, without the
\* byte-order-mark character.
C7_BOMStripped ==
    (Done("read_file") /\ outcome = "returned" /\ BOMThenUtf8(file))
    => /\ result.str = strip(TranslateNewlines(AfterBOM(file)))
       /\ (result.str = <<>> \/ result.str[1] # BOMChar)

\* Number of opens of a read_file call on content c that meets no
\* file-access error: one per candidate up to the first that reads, one
\* more for the last resort when none does.
RECURSIVE OpensFrom(_, _)
OpensFrom(c, k) ==
    IF k > Len(encodings_read_text) THEN k
    ELSE IF TextRead(c, encodings_read_text[k], "strict").ok THEN k
    ELSE OpensFrom(c, k + 1)

ReadOpens(c) == OpensFrom(c, 1)

LossyTried == \E m \in 1..Len(tried) : tried[m].errors = "replace"
FourStrictFailed ==
    Len(tried) >= 4 /\ \A m \in 1..4 : tried[m].res = "UnicodeDecodeError"

\* C8 as stated: a read_file call has opened the file at most 5 times when
\* it returns, the lossy attempt having been made exactly when the four
\* strict attempts failed, and some file content makes a call open the file
\* 5 times.
C8_AsClaimed ==
    (Done("read_file") /\ outcome = "returned") =>
        /\ open_calls <= 5
        /\ LossyTried <=> FourStrictFailed
        /\ \E c \in Contents : ReadOpens(c) = 5

\* C8 amended: a read_file call opens the file at most 4 times, as many
\* times as candidates up to the first that reads when no file-access error
\* occurs; the four strict attempts never all fail, so the lossy attempt is
\* never made.
C8_AtMostFourOpens ==
    fn = "read_file" =>
        /\ open_calls <= 4
        /\ ~LossyTried /\ ~FourStrictFailed /\ enc <= 4
        /\ (pc = "done" /\ ~os_error) =>
               /\ open_calls = ReadOpens(file)
               /\ tried[Len(tried)].enc = CandidateOrder[open_calls]

\* The worst case: three decode errors, then latin-1.
C8_Witness ==
    /\ Done("read_file") /\ outcome = "returned"
    /\ open_calls = 4
    /\ TriedRes = <<"UnicodeDecodeError", "UnicodeDecodeError", "UnicodeDecodeError", "ok">>

\* C9: at most one handle on the file is open at any point; a handle is
\* open only between an open and the end of its with-block, so it is closed
\* before the next candidate is tried and when the call returns or raises;
\* load_json_file calls open exactly once.
C9_HandlesScoped ==
    /\ handles \in {0, 1}
    /\ handles = 1 <=> pc \in {"read", "exit"}
    /\ (fn = "load_json_file" /\ pc # "open") => open_calls = 1

\* A call over, every handle closed, after a decode error made it reopen
\* the file.
C9_Witness ==
    /\ Done("read_file")
    /\ open_calls >= 2
    /\ tried[1].res = "UnicodeDecodeError"
    /\ handles = 0

\* The lossy text and its parse failure.
LossyText(c) == decode(c, "utf-8", "replace").text

\* C10: the error load_json_file raises has the message "Failed to
\* decode/parse JSON from {path}: {msg}" where msg, and the error's document
\* and position, are those of the parse failure of the lossy-decoded text;
\* the errors kept from the strict candidates play no part.
C10_ReraisedError ==
    (fn = "load_json_file" /\ outcome = "JSONDecodeError") =>
        raised = [type |-> "JSONDecodeError",
                  msg |-> <<"Failed to decode/parse JSON from ", file_path, ": ",
                            json_loads(LossyText(file)).msg>>,
                  doc |-> LossyText(file),
                  pos |-> json_loads(LossyText(file)).pos]

\* A raised error whose message and document differ from those of the last
\* error the loop recorded.
C10_Witness ==
    /\ Done("load_json_file") /\ outcome = "JSONDecodeError"
    /\ last_error.type = "JSONDecodeError"
    /\ raised.msg[4] # last_error.msg
    /\ raised.doc # last_error.doc

====
